---- MODULE Spec2Model ----
(***************************************************************************)
(* A model of talos_order.py: the per-order batch processor               *)
(* (process_positions), the run driver (main), the artifact cache          *)
(* (http_download, decompress_raw_xz, sidecars) and the retention manager  *)
(* (plan_cache_cleanup, plan_full_purge, execute_cache_cleanup).           *)
(*                                                                         *)
(* Strings are sequences of one-character strings, so that the string     *)
(* operations of the source (lstrip, split, startswith, the regular        *)
(* expressions) are computed character by character.  A path below the     *)
(* cache directory is represented by its name relative to cache_dir.      *)
(***************************************************************************)
EXTENDS Integers, Sequences, FiniteSets, TLC

VARIABLES
  pc,              \* where main (and process_positions under it) is
  dry_run,         \* args.dry_run
  purge_before,    \* cache_policy.purge_before or --purge-cache
  cache_enabled,   \* cache_policy.enabled
  keep_versions,   \* cache_policy.keep_versions
  push_enabled_default, \* defaults.push.enabled
  nOrders,         \* len(orders_list)
  cacheDirExists,  \* whether cache_dir exists
  cache,           \* the entries of cache_dir: name -> content
  plan,            \* purge_list / cleanup_plan of main
  delIdx,          \* execute_cache_cleanup: index of the next path
  removed,         \* execute_cache_cleanup: the list it returns
  attempts,        \* history: what happened to each path that was tried
  orderIdx,        \* main: index of the current order
  positions,       \* process_positions: the items of the current order
  manifests,       \* the manifests produced so far, one record per order
  posIdx,          \* process_positions: index of the current item
  entries,         \* process_positions: entries
  cur,             \* process_positions: the locals of the current item
  faults,          \* history: failures of the environment so far
  call,            \* a function called on its own: its name and arguments
  ret,             \* what that function returned
  io               \* history: counters of the external calls made

retVars  == <<plan, delIdx, removed, attempts>>
cfgVars  == <<dry_run, purge_before, cache_enabled, keep_versions,
              push_enabled_default, nOrders>>
fsVars   == <<cacheDirExists, cache>>
ordVars  == <<orderIdx, positions, manifests>>
itemVars == <<posIdx, entries, cur>>
fnVars   == <<call, ret>>
vars     == <<pc, cfgVars, fsVars, retVars, ordVars, itemVars, io, faults,
              fnVars>>

\* ------------------------------------------------------------------ bounds
\* most entries the cache directory holds when the retention manager starts
MaxFiles == 4
\* largest keep_versions of the cache policy that is tried
MaxKeep == 2
\* most orders of a run, and most items of an order
MaxOrders == 2
MaxItems  == 2
\* most failures of the environment (a request, a transfer, a tool, a file
\* operation that fails, an entry removed by another process) in one run
MaxFaults == 1
\* most hosts of one push
MaxHosts == 3
\* most tags in one answer of the tags endpoint
MaxTags == 3

\* a step on which the environment fails (b) or does not
Fault(b) ==
  /\ b => faults < MaxFaults
  /\ faults' = IF b THEN faults + 1 ELSE faults

\* ------------------------------------------------------------- characters
Digits == {"0", "1", "2", "3", "4", "5", "6", "7", "8", "9"}

DigitVal(c) ==
  CASE c = "0" -> 0 [] c = "1" -> 1 [] c = "2" -> 2 [] c = "3" -> 3
    [] c = "4" -> 4 [] c = "5" -> 5 [] c = "6" -> 6 [] c = "7" -> 7
    [] c = "8" -> 8 [] c = "9" -> 9

\* code point order of the characters that occur in tags (str comparison)
CharCode(c) ==
  CASE c = "-" -> 45 [] c = "." -> 46 [] c = "/" -> 47
    [] c \in Digits -> 48 + DigitVal(c)
    [] c = "a" -> 97 [] c = "b" -> 98 [] c = "c" -> 99 [] c = "e" -> 101
    [] c = "r" -> 114 [] c = "t" -> 116 [] c = "v" -> 118
    [] OTHER -> 120

RECURSIVE StrLess(_, _)
StrLess(a, b) ==
  IF a = <<>> THEN b # <<>>
  ELSE IF b = <<>> THEN FALSE
  ELSE IF Head(a) = Head(b) THEN StrLess(Tail(a), Tail(b))
  ELSE CharCode(Head(a)) < CharCode(Head(b))

StartsWith(s, p) == Len(s) >= Len(p) /\ SubSeq(s, 1, Len(p)) = p

EndsWith(s, p) ==
  Len(s) >= Len(p) /\ SubSeq(s, Len(s) - Len(p) + 1, Len(s)) = p

RECURSIVE LStrip(_, _)
LStrip(s, c) ==
  IF s # <<>> /\ Head(s) = c THEN LStrip(Tail(s), c) ELSE s

\* position of the first c in s, 0 when there is none
RECURSIVE IndexFrom(_, _, _)
IndexFrom(s, c, i) ==
  IF i > Len(s) THEN 0
  ELSE IF s[i] = c THEN i
  ELSE IndexFrom(s, c, i + 1)

\* str.split(c, 1)
SplitOnce(s, c) ==
  LET i == IndexFrom(s, c, 1)
  IN IF i = 0 THEN <<s>>
     ELSE <<SubSeq(s, 1, i - 1), SubSeq(s, i + 1, Len(s))>>

\* str.split(c)
RECURSIVE Split(_, _)
Split(s, c) ==
  LET i == IndexFrom(s, c, 1)
  IN IF i = 0 THEN <<s>>
     ELSE <<SubSeq(s, 1, i - 1)>> \o Split(SubSeq(s, i + 1, Len(s)), c)

IsDigits(s) == s # <<>> /\ \A i \in 1..Len(s) : s[i] \in Digits

\* int() of a string of digits
RECURSIVE IntOf(_)
IntOf(s) ==
  IF s = <<>> THEN 0
  ELSE 10 * IntOf(SubSeq(s, 1, Len(s) - 1)) + DigitVal(s[Len(s)])

\* ------------------------------------------------------- string constants
s_v         == <<"v">>
s_dash      == <<"-">>
s_dot       == <<".">>
s_talos     == <<"t", "a", "l", "o", "s">>
s_sha256    == <<".", "s", "h", "a", "2", "5", "6">>
s_part      == <<".", "p", "a", "r", "t">>
s_xz        == <<".", "x", "z">>
s_iso       == <<".", "i", "s", "o">>
s_rawxz     == <<".", "r", "a", "w", ".", "x", "z">>
s_nocloud   == <<"n", "o", "c", "l", "o", "u", "d">>
s_metal     == <<"m", "e", "t", "a", "l">>
s_amd64     == <<"a", "m", "d", "6", "4">>
s_secureboot == <<"-", "s", "e", "c", "u", "r", "e", "b", "o", "o", "t">>
s_beta1     == <<"b", "e", "t", "a", ".", "1">>
s_tmp       == <<"t", "m", "p">>

s_base      == <<"h", "t", "t", "p", "s", ":", "/", "/", "f", "a", "c", "t", "o", "r", "y", ".", "t", "a", "l", "o", "s", ".", "d", "e", "v", "/", "i", "m", "a", "g", "e", "/">>
s_slash     == <<"/">>
s_raw       == <<"r", "a", "w">>
s_rawxz_fmt == <<"r", "a", "w", ".", "x", "z">>
s_rawxz_one == <<"r", "a", "w", "x", "z">>
s_iso_fmt   == <<"i", "s", "o">>
s_qcow2     == <<"q", "c", "o", "w", "2">>
s_abc       == <<"a", "b", "c">>
s_created   == <<"f", "0", "0">>
s_placeholder == <<"<", "t", "o", "-", "b", "e", "-", "c", "r", "e", "a", "t", "e", "d", ">">>
s_v12       == <<"v", "1", ".", "2">>
s_v13       == <<"v", "1", ".", "3">>
s_Talos     == <<"T", "a", "l", "o", "s">>
s_TALOS     == <<"T", "A", "L", "O", "S">>
s_k8s       == <<"k", "8", "s">>

\* ---------------------------------------------------- version sort key
\* _SEMVER_CORE = ^(\d+)\.(\d+)\.(\d+)$
SEMVER_CORE_match(core) ==
  LET p == Split(core, ".")
  IN Len(p) = 3 /\ \A i \in 1..3 : IsDigits(p[i])

\* the key is the tuple (major, minor, patch, preflag, pre)
parse_semver_for_sort(tag) ==
  LET t      == LStrip(tag, "v")
      parts  == SplitOnce(t, "-")
      core   == parts[1]
      hasPre == Len(parts) > 1
      pre    == IF hasPre THEN parts[2] ELSE <<>>
      p      == Split(core, ".")
  IN IF ~SEMVER_CORE_match(core)
       THEN <<0, 0, 0, IF hasPre /\ pre # <<>> THEN -1 ELSE 0, pre>>
       ELSE <<IntOf(p[1]), IntOf(p[2]), IntOf(p[3]),
              IF hasPre THEN -1 ELSE 0, pre>>

\* tuple comparison a < b of two keys
KeyLess(a, b) ==
  \E i \in 1..5 :
    /\ \A j \in 1..(i - 1) : a[j] = b[j]
    /\ IF i = 5 THEN StrLess(a[5], b[5]) ELSE a[i] < b[i]

semver_key_no_preflag(tag) ==
  LET k == parse_semver_for_sort(tag) IN <<k[1], k[2], k[3], 0, k[5]>>

\* _semver_key: the key is the tuple (major, minor, patch, preflag, pre)
semver_key(tag) ==
  LET t      == LStrip(tag, "v")
      parts  == SplitOnce(t, "-")
      core   == parts[1]
      hasPre == Len(parts) > 1
      pre    == IF hasPre THEN parts[2] ELSE <<>>
      p      == Split(core, ".")
  IN IF ~SEMVER_CORE_match(core)
       THEN <<0, 0, 0, IF hasPre /\ pre # <<>> THEN -1 ELSE 0, pre>>
       ELSE <<IntOf(p[1]), IntOf(p[2]), IntOf(p[3]),
              IF hasPre THEN -1 ELSE 0, pre>>

\* ------------------------------------------------------ version resolution
\* Python's None, and an absent key of a mapping
None == <<"None">>

Truthy(x) == x # None /\ x # <<>>

BestTag_first(matching) == matching[1]

\* sorted(matching, key=_semver_key, reverse=True)[0]
BestTag(matching) ==
  LET i == CHOOSE i \in 1..Len(matching) :
             /\ \A j \in 1..Len(matching) :
                  ~KeyLess(semver_key(matching[i]), semver_key(matching[j]))
             /\ \A j \in 1..(i - 1) :
                  KeyLess(semver_key(matching[j]), semver_key(matching[i]))
  IN matching[i]

\* resolve_version(spec) given what the GitHub endpoint answers: resp.ok says
\* whether http_json returns, resp.tag_name and resp.tags what it returns.
\* The result is [ok, version, source, error, gets]: gets counts the requests.
resolve_version(spec, resp) ==
  LET t    == IF spec.type = "None" THEN "latest" ELSE spec.type
      fail(e, n) == [ok |-> FALSE, version |-> None, source |-> "None",
                     error |-> e, gets |-> n]
      good(v, src, n) == [ok |-> TRUE, version |-> v, source |-> src,
                          error |-> "None", gets |-> n]
  IN IF t = "exact"
       THEN IF ~Truthy(spec.value) THEN fail("ValueError", 0)
            ELSE good(spec.value, "exact", 0)
     ELSE IF t = "latest"
       THEN IF ~resp.ok THEN fail("URLError", 1)
            ELSE IF ~Truthy(resp.tag_name) THEN fail("RuntimeError", 1)
            ELSE good(resp.tag_name, "latest", 1)
     ELSE IF t = "latest-in-minor"
       THEN IF ~Truthy(spec.minor) THEN fail("ValueError", 0)
            ELSE IF ~resp.ok THEN fail("URLError", 1)
            ELSE LET Match(name) == StartsWith(name, spec.minor \o s_dot)
                     matching    == SelectSeq(resp.tags, Match)
                 IN IF matching = <<>> THEN fail("RuntimeError", 1)
                    ELSE good(BestTag(matching), "latest-in-minor", 1)
     ELSE fail("ValueError", 0)

\* ------------------------------------------------------------- asset URL
build_asset_url_metal_sb(schematic_id, version, platform, image_format, arch, sboot) ==
  [ok  |-> platform \in {s_nocloud, s_metal} /\ image_format = s_iso_fmt,
   url |-> IF platform \in {s_nocloud, s_metal} /\ image_format = s_iso_fmt
             THEN s_base \o schematic_id \o s_slash \o version \o s_slash
                    \o platform \o s_dash \o arch
                    \o (IF sboot THEN s_secureboot ELSE <<>>) \o s_iso
             ELSE None]

\* build_asset_url: [ok, url]; ok = FALSE is the ValueError it raises
build_asset_url(schematic_id, version, platform, image_format, arch, sboot) ==
  LET base == s_base \o schematic_id \o s_slash \o version
      sb   == IF sboot THEN s_secureboot ELSE <<>>
      good(name) == [ok |-> TRUE, url |-> base \o s_slash \o name]
      bad  == [ok |-> FALSE, url |-> None]
  IN IF platform = s_nocloud
       THEN IF image_format = s_iso_fmt
              THEN good(s_nocloud \o s_dash \o arch \o sb \o s_iso)
            ELSE IF image_format \in {s_raw, s_rawxz_fmt, s_rawxz_one}
              THEN good(s_nocloud \o s_dash \o arch \o sb \o s_rawxz)
            ELSE bad
     ELSE IF platform = s_metal /\ image_format = s_iso_fmt
       THEN good(s_metal \o s_dash \o arch \o s_iso)
     ELSE bad

RECURSIVE RStrip(_, _)
RStrip(s, c) ==
  IF s # <<>> /\ s[Len(s)] = c THEN RStrip(SubSeq(s, 1, Len(s) - 1), c)
  ELSE s

\* basename = url.rstrip("/").split("/")[-1]
BasenameOf(url) ==
  LET u == RStrip(url, "/")
      slashes == {i \in 1..Len(u) : u[i] = "/"}
      last == IF slashes = {} THEN 0
              ELSE CHOOSE i \in slashes : \A j \in slashes : j <= i
  IN SubSeq(u, last + 1, Len(u))

\* re.sub(r"\.xz$", "", local_path)
StripXz(path) ==
  IF EndsWith(path, s_xz) THEN SubSeq(path, 1, Len(path) - Len(s_xz))
  ELSE path

\* str.lower() on the letters that occur in product names
LowerChar(c) ==
  CASE c = "T" -> "t" [] c = "A" -> "a" [] c = "L" -> "l"
    [] c = "O" -> "o" [] c = "S" -> "s" [] OTHER -> c

Lower(s) == [i \in 1..Len(s) |-> LowerChar(s[i])]

IsTalos_case_sensitive(product) == product = s_talos

\* (it.get("product") or "").lower() != "talos"
IsTalos(product) ==
  Lower(IF Truthy(product) THEN product ELSE <<>>) = s_talos

\* ------------------------------------------------------ push requirement
PushEnabled_always(push, dflt) == TRUE

\* push.get("enabled", push_enabled_default)
PushEnabled(push, dflt) ==
  IF push.enabled = "absent" THEN dflt
  ELSE push.enabled = "true"

\* line 334, any(... for it in positions), evaluated item by item: "raise"
\* when it.get or it.get("push", {}).get raises AttributeError before an
\* item asks for a push, "need" when an item asks for one, else "no"
RECURSIVE need_push(_, _)
need_push(items, dflt) ==
  IF items = <<>> THEN "no"
  ELSE LET it == Head(items)
       IN IF ~it.mapping \/ it.push.kind \in {"null", "bad"} THEN "raise"
          ELSE IF /\ it.push.kind = "map"
                  /\ it.push.hosts # <<>>
                  /\ PushEnabled(it.push, dflt)
            THEN "need"
          ELSE need_push(Tail(items), dflt)

\* ------------------------------------------------------------ cache names
\* local_path = os.path.join(cache_dir, f"talos-{version}-{basename}")
CacheName(version, basename) ==
  s_talos \o s_dash \o version \o s_dash \o basename

Sidecar(path) == path \o s_sha256

PartOf_in_place(path) == path

\* tmp = dest + ".part"
PartOf(path) == path \o s_part

\* _FILE_RE = ^talos-(v[^-]+)-(.*)$ : [ok, version, tail]
FILE_RE_match(name) ==
  LET pre == s_talos \o s_dash
      r   == SubSeq(name, Len(pre) + 1, Len(name))
      i   == IndexFrom(r, "-", 2)
  IN IF StartsWith(name, pre \o s_v) /\ i >= 3
       THEN [ok |-> TRUE, version |-> SubSeq(r, 1, i - 1),
             tail |-> SubSeq(r, i + 1, Len(r))]
       ELSE [ok |-> FALSE, version |-> <<>>, tail |-> <<>>]

\* ------------------------------------------------------ retention manager
\* a scan that does not skip the sidecars
RECURSIVE ScanEntries_with_sidecars(_)
ScanEntries_with_sidecars(listing) ==
  IF listing = <<>> THEN <<>>
  ELSE LET name == Head(listing)
           m    == FILE_RE_match(name)
       IN (IF ~m.ok THEN <<>>
           ELSE <<[version |-> m.version, tail |-> m.tail, full |-> name]>>)
          \o ScanEntries_with_sidecars(Tail(listing))

\* the entries the grouping scan keeps, in listing order: (version, tail, full)
RECURSIVE ScanEntries(_)
ScanEntries(listing) ==
  IF listing = <<>> THEN <<>>
  ELSE LET name == Head(listing)
           m    == FILE_RE_match(name)
       IN (IF EndsWith(name, s_sha256) \/ ~m.ok THEN <<>>
           ELSE <<[version |-> m.version, tail |-> m.tail, full |-> name]>>)
          \o ScanEntries(Tail(listing))

\* the keys of groups, in insertion order
RECURSIVE GroupKeys(_)
GroupKeys(scan) ==
  IF scan = <<>> THEN <<>>
  ELSE LET front == GroupKeys(SubSeq(scan, 1, Len(scan) - 1))
           t     == scan[Len(scan)].tail
       IN IF \E i \in 1..Len(front) : front[i] = t THEN front
          ELSE Append(front, t)

\* sorted(items, key=_parse_semver_for_sort(x[0]), reverse=True): stable
InsertDesc(sorted, x) ==
  LET k    == parse_semver_for_sort(x.version)
      less == {j \in 1..Len(sorted) :
                 KeyLess(parse_semver_for_sort(sorted[j].version), k)}
      at   == IF less = {} THEN Len(sorted) + 1
              ELSE CHOOSE j \in less : \A l \in less : j <= l
  IN SubSeq(sorted, 1, at - 1) \o <<x>> \o SubSeq(sorted, at, Len(sorted))

RECURSIVE SortedDesc(_)
SortedDesc(items) ==
  IF items = <<>> THEN <<>>
  ELSE InsertDesc(SortedDesc(SubSeq(items, 1, Len(items) - 1)),
                  items[Len(items)])

\* a slice that starts one entry too early
Victims_off_by_one(items_sorted, keep) ==
  SubSeq(items_sorted, keep, Len(items_sorted))

\* victims = items_sorted[keep_versions:]
Victims(items_sorted, keep) ==
  SubSeq(items_sorted, keep + 1, Len(items_sorted))

\* each victim, followed by its sidecar when os.path.exists(sha)
RECURSIVE WithSidecars(_, _)
WithSidecars(victims, existing) ==
  IF victims = <<>> THEN <<>>
  ELSE LET victim == Head(victims).full
       IN <<victim>>
          \o (IF Sidecar(victim) \in existing THEN <<Sidecar(victim)>>
              ELSE <<>>)
          \o WithSidecars(Tail(victims), existing)

RECURSIVE PlanGroups(_, _, _, _)
PlanGroups(keys, scan, keep, existing) ==
  IF keys = <<>> THEN <<>>
  ELSE LET InGroup(x) == x.tail = Head(keys)
           items      == SelectSeq(scan, InGroup)
       IN WithSidecars(Victims(SortedDesc(items), keep), existing)
          \o PlanGroups(Tail(keys), scan, keep, existing)

\* plan_cache_cleanup: dirExists = FALSE is os.listdir's FileNotFoundError,
\* listing is what os.listdir returns
plan_cache_cleanup(dirExists, listing, keep) ==
  IF keep <= 0 THEN <<>>
  ELSE IF ~dirExists THEN <<>>
  ELSE LET scan == ScanEntries(listing)
           existing == {listing[i] : i \in 1..Len(listing)}
       IN PlanGroups(GroupKeys(scan), scan, keep, existing)

\* plan_full_purge
plan_full_purge(dirExists, listing) ==
  IF ~dirExists THEN <<>> ELSE listing

\* one path of execute_cache_cleanup's loop: content is the entry at p
\* ("absent" when there is none), fails says whether the removal fails.
\* The result is [gone, report]: whether the entry is gone afterwards, and
\* what is appended to removed (<<>> when nothing is).
execute_one(p, content, fails) ==
  IF content = "dir"
    THEN \* shutil.rmtree(p, ignore_errors=True); removed.append(p)
         [gone |-> ~fails, report |-> <<[path |-> p, error |-> FALSE]>>]
  ELSE IF content = "absent"
    THEN \* os.remove raises FileNotFoundError: pass
         [gone |-> TRUE, report |-> <<>>]
  ELSE IF fails
    THEN \* os.remove raises another exception: removed.append("ERROR:...")
         [gone |-> FALSE, report |-> <<[path |-> p, error |-> TRUE]>>]
  ELSE [gone |-> TRUE, report |-> <<[path |-> p, error |-> FALSE]>>]

\* the locals of process_positions when no item is being processed
NoCur == [name |-> "None"]

\* no function is called on its own
NoCall == [fn |-> "None"]

NoIo == [gets |-> 0, posts |-> 0, downloads |-> 0, decompressions |-> 0,
         remote_cmds |-> 0]

\* ------------------------------------------------------------------ files
Tag110 == <<"v", "1", ".", "1", ".", "0">>
Tag120 == <<"v", "1", ".", "2", ".", "0">>
Tag130 == <<"v", "1", ".", "3", ".", "0">>
Tag130beta1 == Tag130 \o s_dash \o s_beta1

NocloudIso == s_nocloud \o s_dash \o s_amd64 \o s_iso
MetalIso   == s_metal \o s_dash \o s_amd64 \o s_iso

\* version tags and basenames of the artifacts found in a cache directory
Tags == {Tag110, Tag120, Tag130, Tag130beta1}

Basenames == {NocloudIso, MetalIso}

\* the names a cache directory is populated from
FileUniverse ==
  { CacheName(Tag110, NocloudIso), CacheName(Tag120, NocloudIso),
    CacheName(Tag130, NocloudIso), CacheName(Tag130beta1, NocloudIso),
    Sidecar(CacheName(Tag110, NocloudIso)),
    Sidecar(CacheName(Tag120, NocloudIso)),
    CacheName(Tag120, MetalIso), s_tmp }

KindOf(name) == IF name = s_tmp THEN "dir" ELSE "old"

Content(c, p) == IF p \in DOMAIN c THEN c[p] ELSE "absent"

Without(c, p) == [q \in DOMAIN c \ {p} |-> c[q]]

SeqRange(s) == {s[i] : i \in 1..Len(s)}

\* the orders in which os.listdir may return the entries
RECURSIVE Listings(_)
Listings(S) ==
  IF S = {} THEN {<<>>}
  ELSE UNION {{<<x>> \o l : l \in Listings(S \ {x})} : x \in S}

\* one enumeration of a set of names
RECURSIVE SomeSeq(_)
SomeSeq(S) ==
  IF S = {} THEN <<>>
  ELSE LET x == CHOOSE x \in S : TRUE IN <<x>> \o SomeSeq(S \ {x})

\* The listings plan_cache_cleanup may be given.  Its scan skips sidecars and
\* names _FILE_RE does not match, wherever they are listed: they are put
\* last, and the entries the scan keeps come in every order.
ScanListings(c) ==
  LET kept == {n \in DOMAIN c : ~EndsWith(n, s_sha256) /\ FILE_RE_match(n).ok}
  IN {l \o SomeSeq(DOMAIN c \ kept) : l \in Listings(kept)}

\* --------------------------------------------------- main: purge, retention
\* main, lines 485-494 and 541-550: a plan is printed in a dry run and given
\* to execute_cache_cleanup otherwise, when it is not empty
run_cleanup_in_dry_run(dry, pl) == pl # <<>>

run_cleanup(dry, pl) == ~dry /\ pl # <<>>

\* main, lines 483-494
Purge ==
  /\ pc = "purge"
  /\ IF ~purge_before
       THEN pc' = "orders" /\ UNCHANGED retVars
       ELSE \E l \in Listings(DOMAIN cache) :
              /\ plan' = plan_full_purge(cacheDirExists, l)
              /\ removed' = <<>> /\ attempts' = <<>> /\ delIdx' = 1
              /\ pc' = IF run_cleanup(dry_run, plan') THEN "purge_exec"
                       ELSE "orders"
  /\ UNCHANGED <<fnVars, cfgVars, fsVars, ordVars, itemVars, io, faults>>

\* main, lines 539-550
Retention ==
  /\ pc = "retention"
  /\ IF ~cache_enabled
       THEN pc' = "done" /\ UNCHANGED retVars
       ELSE \E l \in ScanListings(cache) :
              /\ plan' = plan_cache_cleanup(cacheDirExists, l, keep_versions)
              /\ removed' = <<>> /\ attempts' = <<>> /\ delIdx' = 1
              /\ pc' = IF run_cleanup(dry_run, plan') THEN "retention_exec"
                       ELSE "done"
  /\ UNCHANGED <<fnVars, cfgVars, fsVars, ordVars, itemVars, io, faults>>

\* execute_cache_cleanup: one iteration of its loop, or its return
ExecuteCleanup ==
  /\ pc \in {"purge_exec", "retention_exec"}
  /\ IF delIdx > Len(plan)
       THEN \* main prints what was removed; after a purge the list is dropped
            /\ pc' = IF pc = "purge_exec" THEN "orders" ELSE "done"
            /\ IF pc = "purge_exec"
                 THEN plan' = <<>> /\ delIdx' = 1 /\ removed' = <<>>
                      /\ attempts' = <<>>
                 ELSE UNCHANGED retVars
            /\ UNCHANGED <<fsVars, faults>>
       ELSE \E fails \in BOOLEAN :
              LET p == plan[delIdx]
                  r == execute_one(p, Content(cache, p), fails)
              IN /\ cache' = IF r.gone THEN Without(cache, p) ELSE cache
                 /\ removed' = removed \o r.report
                 /\ attempts' = Append(attempts,
                      [path |-> p,
                       outcome |-> IF p \notin DOMAIN cache THEN "absent"
                                   ELSE IF r.gone THEN "deleted"
                                   ELSE "failed"])
                 /\ delIdx' = delIdx + 1
                 /\ Fault(fails /\ p \in DOMAIN cache)
                 /\ UNCHANGED <<pc, plan, cacheDirExists>>
  /\ UNCHANGED <<fnVars, cfgVars, ordVars, itemVars, io>>

\* another process removes the entry execute_cache_cleanup is about to
\* remove (runs against the same cache directory are not guarded)
ExternalRemove ==
  /\ pc \in {"purge_exec", "retention_exec"}
  /\ delIdx <= Len(plan)
  /\ plan[delIdx] \in DOMAIN cache
  /\ cache' = Without(cache, plan[delIdx])
  /\ Fault(TRUE)
  /\ UNCHANGED <<pc, fnVars, cfgVars, cacheDirExists, retVars, ordVars, itemVars, io>>

OrdersDone_between_orders ==
  /\ pc = "orders"
  /\ pc' = "retention"
  /\ UNCHANGED <<fnVars, cfgVars, fsVars, retVars, ordVars, itemVars, io, faults>>

\* main, line 497: the loop over the orders is over
OrdersDone ==
  /\ pc = "orders"
  /\ orderIdx > nOrders
  /\ pc' = "retention"
  /\ UNCHANGED <<fnVars, cfgVars, fsVars, retVars, ordVars, itemVars, io, faults>>

\* ---------------------------------------- the retention manager on its own
\* either a full purge (no retention afterwards) or a retention pass
InitRetention ==
  /\ dry_run \in BOOLEAN
  /\ \/ /\ pc = "purge" /\ purge_before = TRUE
        /\ cache_enabled = FALSE /\ keep_versions = 0
     \/ /\ pc = "retention" /\ purge_before = FALSE
        /\ cache_enabled \in BOOLEAN /\ keep_versions \in (-1)..MaxKeep
  /\ cacheDirExists \in BOOLEAN
  /\ \E S \in SUBSET FileUniverse :
       /\ Cardinality(S) <= MaxFiles
       /\ cacheDirExists \/ S = {}
       /\ cache = [n \in S |-> KindOf(n)]
  /\ plan = <<>> /\ delIdx = 1 /\ removed = <<>> /\ attempts = <<>>
  /\ push_enabled_default = FALSE /\ nOrders = 0
  /\ orderIdx = 1 /\ positions = <<>> /\ manifests = <<>>
  /\ posIdx = 1 /\ entries = <<>> /\ cur = NoCur
  /\ io = NoIo /\ faults = 0
  /\ call = NoCall /\ ret = NoCall

NextRetention ==
  \/ Purge
  \/ Retention
  \/ ExecuteCleanup
  \/ ExternalRemove
  \/ OrdersDone

SpecRetention == InitRetention /\ [][NextRetention]_vars

\* ------------------------------------------------------------- the inputs
\* the push field of an item: absent, null, or a mapping
PushAbsent == [kind |-> "absent", enabled |-> "absent", hosts |-> <<>>]
PushNull   == [kind |-> "null", enabled |-> "absent", hosts |-> <<>>]
PushBoth   == [kind |-> "map", enabled |-> "true", hosts |-> <<"h1", "h2">>]
PushDflt   == [kind |-> "map", enabled |-> "absent", hosts |-> <<"h1">>]

\* the version field of an item
VExact  == [type |-> "exact", value |-> Tag120, minor |-> None]
VLatest == [type |-> "latest", value |-> None, minor |-> None]
VBogus  == [type |-> "bogus", value |-> None, minor |-> None]

\* an item with an existing schematic, an exact version and the defaults
ItPlain ==
  [mapping |-> TRUE, name |-> "a", product |-> s_talos, version |-> VExact,
   schematic_id |-> s_abc, customization |-> FALSE, platform |-> s_nocloud,
   image_format |-> s_iso_fmt, decompress_raw |-> FALSE, push |-> PushAbsent]

\* an unnamed item that uses every stage
ItFull ==
  [ItPlain EXCEPT !.name = "None", !.product = s_Talos, !.version = VLatest,
                  !.schematic_id = None, !.customization = TRUE,
                  !.image_format = s_rawxz_fmt, !.decompress_raw = TRUE,
                  !.push = PushBoth]

\* the newest version of the family of ItPlain, pushed if that is the default
ItNewIso ==
  [ItPlain EXCEPT !.name = "c", !.version = VLatest, !.customization = TRUE,
                  !.push = PushDflt]

ItOther      == [ItPlain EXCEPT !.name = "k", !.product = s_k8s]
ItNoProduct  == [ItPlain EXCEPT !.name = "n", !.product = None]
ItBadVersion == [ItPlain EXCEPT !.name = "v", !.version = VBogus]
ItNoSchematic == [ItPlain EXCEPT !.name = "s", !.schematic_id = None]
ItMetalRaw   == [ItPlain EXCEPT !.name = "m", !.platform = s_metal,
                                !.image_format = s_rawxz_fmt]
ItPushNull   == [ItPlain EXCEPT !.name = "p", !.push = PushNull]
\* an item that is a scalar, not a mapping
ItScalar     == [ItPlain EXCEPT !.mapping = FALSE]

Items ==
  { ItPlain, ItFull, ItNewIso, ItOther, ItNoProduct, ItBadVersion,
    ItNoSchematic, ItMetalRaw, ItPushNull, ItScalar }

\* the items the orders of a whole run are made of
RunItems == { ItPlain, ItFull, ItNewIso }

PositionLists(I) == UNION {[1..n -> I] : n \in 0..MaxItems}

\* what the GitHub endpoints answer
GoodResponse ==
  [ok |-> TRUE, tag_name |-> Tag130, tags |-> <<Tag120, Tag130beta1, Tag130>>]

Responses ==
  { [ok |-> FALSE, tag_name |-> None, tags |-> <<>>],
    [ok |-> TRUE, tag_name |-> None, tags |-> <<Tag120>>],
    GoodResponse }

\* ------------------------------------------------------- file contents
\* sha256_file: the digest of a file's bytes
ShaOf(content) ==
  CASE content = "old" -> "sha(old)" [] content = "new" -> "sha(new)"
    [] content = "raw(old)" -> "sha(raw(old))"
    [] content = "raw(new)" -> "sha(raw(new))"
    [] content = "partial" -> "sha(partial)"
    [] OTHER -> "sha()"

\* what decompressing a complete .xz file yields
RawOf(content) == IF content = "old" THEN "raw(old)" ELSE "raw(new)"

With(c, p, content) ==
  [q \in DOMAIN c \cup {p} |-> IF q = p THEN content ELSE c[q]]

IsCached_if_exists(c, path) == Content(c, path) # "absent"

\* os.path.exists(local_path) and os.path.getsize(local_path) > 0
IsCached(c, path) == Content(c, path) \notin {"absent", "empty"}

\* os.replace(tmp, dest)
Replace(c, tmp, dest) == With(Without(c, tmp), dest, c[tmp])

\* ------------------------------------------------- process_positions
pos_name_of(name) == IF name = "None" THEN "<unnamed>" ELSE name

on_item_exception_drops(es, name, e) == es

\* lines 433-441: the except clause of the item's try block
on_item_exception(es, name, e) ==
  Append(es, [name |-> name, status |-> "error", error |-> e])

\* main, lines 507-510: the except clause around process_positions
on_order_exception(e) == <<[status |-> "error", error |-> e]>>

NextItem(es) ==
  /\ entries' = es
  /\ posIdx' = posIdx + 1
  /\ cur' = NoCur
  /\ pc' = "item"

ItemFails(e) == NextItem(on_item_exception(entries, cur.name, e))

OrderFails(e) ==
  /\ entries' = on_order_exception(e)
  /\ cur' = NoCur
  /\ pc' = "manifest"
  /\ UNCHANGED posIdx

Count(field) == io' = [io EXCEPT ![field] = @ + 1]

\* main, lines 472-473
Start ==
  /\ pc = "start"
  /\ cacheDirExists' = TRUE
  /\ pc' = "purge"
  /\ UNCHANGED <<fnVars, cfgVars, cache, retVars, ordVars, itemVars, io, faults>>

\* main, lines 497-503: the next order is read
OrderBegin ==
  /\ pc = "orders"
  /\ orderIdx <= nOrders
  /\ \E orderid_ok \in BOOLEAN :
       IF ~orderid_ok
         THEN \* raise ValueError: nothing catches it
              pc' = "aborted" /\ UNCHANGED <<positions, itemVars>>
         ELSE \E ps \in PositionLists(RunItems) :
                /\ positions' = ps
                /\ posIdx' = 1 /\ entries' = <<>> /\ cur' = NoCur
                /\ pc' = "pp"
  /\ UNCHANGED <<fnVars, cfgVars, fsVars, retVars, orderIdx, manifests, io, faults>>

\* process_positions, lines 322-340
PPStart ==
  /\ pc = "pp"
  /\ cacheDirExists' = TRUE
  /\ LET np == need_push(positions, push_enabled_default)
         go == pc' = "item" /\ UNCHANGED <<posIdx, entries, cur>>
     IN IF np = "raise" THEN OrderFails("AttributeError") /\ UNCHANGED faults
        ELSE IF np = "need" /\ ~dry_run
          THEN \E tools_ok \in BOOLEAN :
                 /\ Fault(~tools_ok)
                 /\ IF tools_ok THEN go ELSE OrderFails("RuntimeError")
        ELSE go /\ UNCHANGED faults
  /\ UNCHANGED <<fnVars, cfgVars, cache, retVars, ordVars, io>>

\* lines 342-346: the next item, or the return of entries
ItemBegin ==
  /\ pc = "item"
  /\ IF posIdx > Len(positions)
       THEN pc' = "manifest" /\ UNCHANGED itemVars
     ELSE IF ~positions[posIdx].mapping
       THEN \* it.get raises AttributeError outside the try block
            OrderFails("AttributeError")
     ELSE IF IsTalos(positions[posIdx].product)
       THEN /\ cur' = [name |-> pos_name_of(positions[posIdx].name)]
            /\ pc' = "resolve"
            /\ UNCHANGED <<posIdx, entries>>
     ELSE /\ posIdx' = posIdx + 1
          /\ UNCHANGED <<pc, entries, cur>>
  /\ UNCHANGED <<fnVars, cfgVars, fsVars, retVars, ordVars, io, faults>>

\* line 349
Resolve ==
  /\ pc = "resolve"
  /\ \E resp \in Responses :
       LET r == resolve_version(positions[posIdx].version, resp)
       IN /\ Fault(r.gets > 0 /\ resp # GoodResponse)
          /\ io' = [io EXCEPT !.gets = @ + r.gets]
          /\ IF r.ok
               THEN /\ cur' = [name |-> cur.name, version |-> r.version,
                               version_source |-> r.source]
                    /\ pc' = "schematic"
                    /\ UNCHANGED <<posIdx, entries>>
               ELSE ItemFails(r.error)
  /\ UNCHANGED <<fnVars, cfgVars, fsVars, retVars, ordVars>>

Schematic_posts_in_dry_run ==
  /\ pc = "schematic"
  /\ LET it == positions[posIdx]
         go(id) == /\ cur' = [name |-> cur.name, version |-> cur.version,
                              version_source |-> cur.version_source,
                              schematic_id |-> id]
                   /\ pc' = "locate"
                   /\ UNCHANGED <<posIdx, entries>>
     IN IF Truthy(it.schematic_id)
          THEN go(it.schematic_id) /\ UNCHANGED <<io, faults>>
        ELSE IF ~it.customization
          THEN ItemFails("ValueError") /\ UNCHANGED <<io, faults>>
        ELSE \* post_schematic_and_get_id
             /\ Count("posts")
             /\ \E answer \in {"id", "no id", "error"} :
                  /\ Fault(answer # "id")
                  /\ IF answer = "id" THEN go(s_created)
                     ELSE IF answer = "no id" THEN ItemFails("RuntimeError")
                     ELSE ItemFails("URLError")
  /\ UNCHANGED <<fnVars, cfgVars, fsVars, retVars, ordVars>>

\* lines 351-360
Schematic ==
  /\ pc = "schematic"
  /\ LET it == positions[posIdx]
         go(id) == /\ cur' = [name |-> cur.name, version |-> cur.version,
                              version_source |-> cur.version_source,
                              schematic_id |-> id]
                   /\ pc' = "locate"
                   /\ UNCHANGED <<posIdx, entries>>
     IN IF Truthy(it.schematic_id)
          THEN go(it.schematic_id) /\ UNCHANGED <<io, faults>>
        ELSE IF ~it.customization
          THEN ItemFails("ValueError") /\ UNCHANGED <<io, faults>>
        ELSE IF dry_run
          THEN go(s_placeholder) /\ UNCHANGED <<io, faults>>
        ELSE \* post_schematic_and_get_id
             /\ Count("posts")
             /\ \E answer \in {"id", "no id", "error"} :
                  /\ Fault(answer # "id")
                  /\ IF answer = "id" THEN go(s_created)
                     ELSE IF answer = "no id" THEN ItemFails("RuntimeError")
                     ELSE ItemFails("URLError")
  /\ UNCHANGED <<fnVars, cfgVars, fsVars, retVars, ordVars>>

\* lines 362-391
Locate ==
  /\ pc = "locate"
  /\ LET it == positions[posIdx]
         r  == build_asset_url(cur.schematic_id, cur.version, it.platform,
                               it.image_format, s_amd64, FALSE)
         local_path == CacheName(cur.version, BasenameOf(r.url))
         entry == [name |-> cur.name, version |-> cur.version,
                   version_source |-> cur.version_source,
                   schematic_id |-> cur.schematic_id, url |-> r.url,
                   path |-> local_path, done |-> FALSE, sha |-> "None",
                   decompressed |-> [path |-> None, sha |-> "None"],
                   pushed |-> <<>>]
     IN IF ~r.ok THEN ItemFails("ValueError") /\ UNCHANGED cacheDirExists
        ELSE /\ cacheDirExists' = TRUE
             /\ IF dry_run THEN NextItem(Append(entries, entry))
                ELSE /\ cur' = [name |-> cur.name, entry |-> entry,
                                hostIdx |-> 1, lzma |-> FALSE]
                     /\ pc' = "fetch"
                     /\ UNCHANGED <<posIdx, entries>>
  /\ UNCHANGED <<fnVars, cfgVars, cache, retVars, ordVars, io, faults>>

\* lines 393-399, and http_download up to the opening of the .part file
Fetch ==
  /\ pc = "fetch"
  /\ LET path == cur.entry.path
     IN IF IsCached(cache, path)
          THEN /\ pc' = "checksum"
               /\ UNCHANGED <<cache, posIdx, entries, cur, io, faults>>
          ELSE /\ Count("downloads")
               /\ \E connects \in BOOLEAN :
                    /\ Fault(~connects)
                    /\ IF connects
                         THEN /\ cache' = With(cache, PartOf(path), "empty")
                              /\ pc' = "dl_open"
                              /\ UNCHANGED <<posIdx, entries, cur>>
                         ELSE ItemFails("URLError") /\ UNCHANGED cache
  /\ UNCHANGED <<fnVars, cfgVars, cacheDirExists, retVars, ordVars>>

\* http_download, line 62: shutil.copyfileobj(r, f)
DownloadStream ==
  /\ pc \in {"dl_open", "dl_partial"}
  /\ LET tmp == PartOf(cur.entry.path)
     IN \/ /\ pc = "dl_open"
           /\ cache' = With(cache, tmp, "partial")
           /\ pc' = "dl_partial"
           /\ UNCHANGED <<posIdx, entries, cur, faults>>
        \/ /\ cache' = With(cache, tmp, "new")
           /\ pc' = "dl_full"
           /\ UNCHANGED <<posIdx, entries, cur, faults>>
        \/ ItemFails("URLError") /\ Fault(TRUE) /\ UNCHANGED cache
  /\ UNCHANGED <<fnVars, cfgVars, cacheDirExists, retVars, ordVars, io>>

\* http_download, line 63, and line 397
DownloadReplace ==
  /\ pc = "dl_full"
  /\ cache' = Replace(cache, PartOf(cur.entry.path), cur.entry.path)
  /\ cur' = [cur EXCEPT !.entry.done = TRUE]
  /\ pc' = "checksum"
  /\ UNCHANGED <<fnVars, cfgVars, cacheDirExists, retVars, ordVars, posIdx, entries,
                 io, faults>>

\* lines 401-408
Checksum ==
  /\ pc = "checksum"
  /\ LET it   == positions[posIdx]
         path == cur.entry.path
         sha  == ShaOf(cache[path])
     IN \/ /\ cache' = With(cache, Sidecar(path), sha)
           /\ cur' = [cur EXCEPT !.entry.sha = sha]
           /\ pc' = IF /\ it.image_format \in {s_rawxz_fmt, s_rawxz_one}
                       /\ it.decompress_raw
                      THEN "decompress" ELSE "push"
           /\ UNCHANGED <<posIdx, entries, faults>>
        \/ \* the sidecar is opened (truncated) and the write fails
           /\ cache' = With(cache, Sidecar(path), "empty")
           /\ ItemFails("OSError")
           /\ Fault(TRUE)
  /\ UNCHANGED <<fnVars, cfgVars, cacheDirExists, retVars, ordVars, io>>

\* decompress_raw_xz up to the opening of the .part file
DecompressOpen ==
  /\ pc = "decompress"
  /\ \E have_lzma \in BOOLEAN, have_xz \in BOOLEAN :
       /\ Fault(~have_lzma /\ ~have_xz)
       /\ IF ~have_lzma /\ ~have_xz
            THEN ItemFails("RuntimeError") /\ UNCHANGED <<cache, io>>
            ELSE /\ Count("decompressions")
                 /\ cache' = With(cache, PartOf(StripXz(cur.entry.path)),
                                  "empty")
                 /\ cur' = [cur EXCEPT !.lzma = have_lzma]
                 /\ pc' = "dc_open"
                 /\ UNCHANGED <<posIdx, entries>>
  /\ UNCHANGED <<fnVars, cfgVars, cacheDirExists, retVars, ordVars>>

\* decompress_raw_xz, lines 191-192 and 200-206
DecompressStream ==
  /\ pc \in {"dc_open", "dc_partial"}
  /\ LET tmp == PartOf(StripXz(cur.entry.path))
     IN \/ /\ pc = "dc_open"
           /\ cache' = With(cache, tmp, "partial")
           /\ pc' = "dc_partial"
           /\ UNCHANGED <<posIdx, entries, cur, faults>>
        \/ /\ cache' = With(cache, tmp, RawOf(cache[cur.entry.path]))
           /\ pc' = "dc_full"
           /\ UNCHANGED <<posIdx, entries, cur, faults>>
        \/ /\ Fault(TRUE)
           /\ IF cur.lzma
                THEN ItemFails("LZMAError") /\ UNCHANGED cache
                ELSE \* xz failed: os.remove(tmp)
                     ItemFails("RuntimeError") /\ cache' = Without(cache, tmp)
  /\ UNCHANGED <<fnVars, cfgVars, cacheDirExists, retVars, ordVars, io>>

\* decompress_raw_xz, lines 193 and 207, and lines 412-418
DecompressReplace ==
  /\ pc = "dc_full"
  /\ LET dst == StripXz(cur.entry.path)
         c1  == Replace(cache, PartOf(dst), dst)
     IN /\ cache' = With(c1, Sidecar(dst), ShaOf(c1[dst]))
        /\ cur' = [cur EXCEPT !.entry.decompressed =
                                 [path |-> dst, sha |-> ShaOf(c1[dst])]]
  /\ pc' = "push"
  /\ UNCHANGED <<fnVars, cfgVars, cacheDirExists, retVars, ordVars, posIdx, entries,
                 io, faults>>

push_one_ignores_mkdir(host, mkdir_ok, rsync_ok) ==
  [host |-> host, status |-> IF rsync_ok THEN "ok" ELSE "rsync-failed"]

\* push_file_to_hosts, lines 221-228: the result for one host
push_one(host, mkdir_ok, rsync_ok) ==
  [host |-> host,
   status |-> IF ~mkdir_ok THEN "mkdir-failed"
              ELSE IF rsync_ok THEN "ok" ELSE "rsync-failed"]

\* lines 420-425
PushBegin ==
  /\ pc = "push"
  /\ LET push == positions[posIdx].push
     IN IF /\ push.kind = "map"
           /\ PushEnabled(push, push_enabled_default)
           /\ push.hosts # <<>>
          THEN pc' = "push_host" /\ UNCHANGED <<posIdx, entries, cur>>
          ELSE NextItem(Append(entries, cur.entry))
  /\ UNCHANGED <<fnVars, cfgVars, fsVars, retVars, ordVars, io, faults>>

\* push_file_to_hosts: one host, or its return and lines 429-431
PushHost ==
  /\ pc = "push_host"
  /\ LET hosts == positions[posIdx].push.hosts
     IN IF cur.hostIdx > Len(hosts)
          THEN NextItem(Append(entries, cur.entry)) /\ UNCHANGED <<io, faults>>
          ELSE \E mkdir_ok \in BOOLEAN, rsync_ok \in BOOLEAN :
                 /\ Fault(~mkdir_ok \/ ~rsync_ok)
                 /\ cur' = [cur EXCEPT
                             !.entry.pushed =
                                Append(@, push_one(hosts[cur.hostIdx],
                                                   mkdir_ok, rsync_ok)),
                             !.hostIdx = @ + 1]
                 /\ io' = [io EXCEPT !.remote_cmds =
                                       @ + IF mkdir_ok THEN 2 ELSE 1]
                 /\ UNCHANGED <<pc, posIdx, entries>>
  /\ UNCHANGED <<fnVars, cfgVars, fsVars, retVars, ordVars>>

\* main, lines 512-537
Manifest ==
  /\ pc = "manifest"
  /\ \E result \in {"ok", "path error", "write error"} :
       /\ Fault(result # "ok")
       /\ IF result = "ok" \/ (result = "write error" /\ dry_run)
            THEN /\ manifests' = Append(manifests,
                                   [order |-> orderIdx, entries |-> entries,
                                    written |-> ~dry_run])
                 /\ orderIdx' = orderIdx + 1
                 /\ positions' = <<>>
                 /\ posIdx' = 1 /\ entries' = <<>>
                 /\ pc' = "orders"
            ELSE \* manifest_path_for_order or open/safe_dump raise
                 /\ pc' = "aborted"
                 /\ UNCHANGED <<ordVars, posIdx, entries>>
  /\ UNCHANGED <<fnVars, cfgVars, fsVars, retVars, cur, io>>

\* ------------------------------------------------------------- the run
IsoPath   == CacheName(Tag130, NocloudIso)
RawXzPath == CacheName(Tag130, s_nocloud \o s_dash \o s_amd64 \o s_rawxz)

\* what earlier runs may have left in the cache directory
PriorCaches ==
  { <<>>,
    (IsoPath :> "old") @@ (Sidecar(IsoPath) :> "sha(old)"),
    (PartOf(IsoPath) :> "partial"),
    (IsoPath :> "empty"),
    (RawXzPath :> "old") }

\* the prior contents a whole run starts from
RunCaches ==
  {c \in PriorCaches : c = <<>> \/ IsoPath \in DOMAIN c}

Init ==
  /\ pc = "start"
  /\ dry_run \in BOOLEAN
  /\ purge_before \in BOOLEAN
  /\ cache_enabled \in BOOLEAN
  /\ keep_versions = 1
  /\ push_enabled_default = FALSE
  /\ nOrders \in 0..MaxOrders
  /\ cacheDirExists \in BOOLEAN
  /\ cache \in RunCaches
  /\ cacheDirExists \/ cache = <<>>
  /\ plan = <<>> /\ delIdx = 1 /\ removed = <<>> /\ attempts = <<>>
  /\ orderIdx = 1 /\ positions = <<>> /\ manifests = <<>>
  /\ posIdx = 1 /\ entries = <<>> /\ cur = NoCur
  /\ io = NoIo /\ faults = 0
  /\ call = NoCall /\ ret = NoCall

Next ==
  \/ Start
  \/ Purge
  \/ ExecuteCleanup
  \/ OrderBegin
  \/ OrdersDone
  \/ PPStart
  \/ ItemBegin
  \/ Resolve
  \/ Schematic
  \/ Locate
  \/ Fetch
  \/ DownloadStream
  \/ DownloadReplace
  \/ Checksum
  \/ DecompressOpen
  \/ DecompressStream
  \/ DecompressReplace
  \/ PushBegin
  \/ PushHost
  \/ Manifest
  \/ Retention

Spec == Init /\ [][Next]_vars

\* ------------------------------------------ process_positions on its own
\* main has created the cache directory and calls process_positions
\* a real run with MaxOrders orders on an empty cache. main is one sequential
\* thread: as long as every external call returns or raises, the next step of
\* the run is eventually taken
InitProgress ==
  /\ Init
  /\ ~dry_run /\ ~purge_before /\ cache_enabled
  /\ nOrders = MaxOrders /\ cache = <<>>

SpecProgress == InitProgress /\ [][Next]_vars /\ WF_vars(Next)

InitOrder ==
  /\ pc = "pp"
  /\ dry_run \in BOOLEAN
  /\ purge_before = FALSE /\ cache_enabled = FALSE /\ keep_versions = 0
  /\ push_enabled_default \in BOOLEAN
  /\ nOrders = 1
  /\ cacheDirExists = TRUE
  /\ cache \in PriorCaches
  /\ plan = <<>> /\ delIdx = 1 /\ removed = <<>> /\ attempts = <<>>
  /\ orderIdx = 1 /\ manifests = <<>>
  /\ positions \in PositionLists(Items)
  /\ posIdx = 1 /\ entries = <<>> /\ cur = NoCur
  /\ io = NoIo /\ faults = 0
  /\ call = NoCall /\ ret = NoCall

NextOrder ==
  \/ PPStart
  \/ ItemBegin
  \/ Resolve
  \/ Schematic
  \/ Locate
  \/ Fetch
  \/ DownloadStream
  \/ DownloadReplace
  \/ Checksum
  \/ DecompressOpen
  \/ DecompressStream
  \/ DecompressReplace
  \/ PushBegin
  \/ PushHost

SpecOrder == InitOrder /\ [][NextOrder]_vars

\* ------------------------------------------- the functions on their own
\* push_file_to_hosts: outs[i] says whether the mkdir and the rsync of host i
\* succeed; cmds lists the commands that are run, by index of the host
RECURSIVE push_file_to_hosts(_, _, _)
push_file_to_hosts(hosts, outs, i) ==
  IF i > Len(hosts) THEN [results |-> <<>>, cmds |-> <<>>]
  ELSE LET rest == push_file_to_hosts(hosts, outs, i + 1)
       IN [results |-> <<push_one(hosts[i], outs[i].mkdir, outs[i].rsync)>>
                         \o rest.results,
           cmds |-> <<[idx |-> i, cmd |-> "mkdir"]>>
                      \o (IF outs[i].mkdir
                            THEN <<[idx |-> i, cmd |-> "rsync"]>> ELSE <<>>)
                      \o rest.cmds]

HostOutcomes == [mkdir : BOOLEAN, rsync : BOOLEAN]

PushCalls ==
  UNION {[fn : {"push_file_to_hosts"}, hosts : [1..n -> {"h1", "h2"}],
          outs : [1..n -> HostOutcomes]] : n \in 0..MaxHosts}

\* str() of a natural number
RECURSIVE Dec(_)
Dec(n) ==
  LET d == CHOOSE c \in Digits : DigitVal(c) = n % 10
  IN IF n < 10 THEN <<d>> ELSE Dec(n \div 10) \o <<d>>

s_rc1 == <<"r", "c", ".", "1">>

\* a tag as text, with what it was written from: valid says that the core is
\* MAJOR.MINOR.PATCH, core holds the three numbers, ga that no pre-release
\* part follows
TagOf(prefix, core, pre) ==
  [text  |-> prefix \o Dec(core[1]) \o s_dot \o Dec(core[2]) \o s_dot
               \o Dec(core[3]) \o (IF pre = None THEN <<>> ELSE s_dash \o pre),
   valid |-> TRUE, core |-> core, ga |-> pre = None]

Malformed(text, pre) ==
  [text  |-> text \o (IF pre = None THEN <<>> ELSE s_dash \o pre),
   valid |-> FALSE, core |-> <<0, 0, 0>>, ga |-> pre = None]

CoreNumbers == {0, 9, 10}

ValidTags ==
  {TagOf(prefix, <<a, b, c>>, pre) :
     prefix \in {s_v}, a \in {0, 1}, b \in CoreNumbers, c \in CoreNumbers,
     pre \in {None, s_beta1, s_rc1}}
  \cup {TagOf(<<>>, <<1, 9, 0>>, None), TagOf(s_v \o s_v, <<1, 9, 0>>, s_rc1),
        TagOf(s_v, <<0, 0, 0>>, <<>>),
        [text |-> <<"v", "0", "1", ".", "0", "9", ".", "0">>, valid |-> TRUE,
         core |-> <<1, 9, 0>>, ga |-> TRUE]}

MalformedTags ==
  {Malformed(text, pre) :
     text \in {<<>>, s_v, s_v \o <<"1", ".", "9">>, <<"l", "a", "t", "e", "s", "t">>,
               s_v \o <<"1", ".", "9", ".", "x">>, s_v \o <<"1", ".", ".", "0">>,
               s_v \o <<"1", ".", "9", ".", "0", ".", "1">>},
     pre \in {None, <<>>, s_beta1, s_rc1}}

KeyCalls ==
  [fn : {"semver_key"}, a : ValidTags \cup MalformedTags,
   b : ValidTags \cup MalformedTags]

\* the tags the tags endpoint lists
ListedTags ==
  {TagOf(s_v, <<1, 1, c>>, None) : c \in CoreNumbers}
  \cup {TagOf(s_v, <<1, 1, 10>>, s_rc1), TagOf(s_v, <<1, 11, 0>>, None),
        TagOf(s_v, <<1, 11, 0>>, s_beta1), TagOf(s_v, <<1, 2, 0>>, None)}

\* version.minor of an item: absent, empty, or the text of major and minor
MinorOf(nums) ==
  IF nums \in {None, <<>>} THEN nums
  ELSE s_v \o Dec(nums[1]) \o s_dot \o Dec(nums[2])

\* a call of resolve_version for latest-in-minor: nums is what version.minor
\* is written from, recs are the tags the endpoint lists when it answers (up)
MinorCall(nums, up, recs) ==
  [fn |-> "resolve_version", nums |-> nums, recs |-> recs,
   spec |-> [type |-> "latest-in-minor", value |-> None,
             minor |-> MinorOf(nums)],
   resp |-> [ok |-> up, tag_name |-> None,
             tags |-> [i \in 1..Len(recs) |-> recs[i].text]]]

ResolveCalls ==
  {MinorCall(nums, up, recs) :
     nums \in {None, <<>>, <<1, 1>>, <<1, 11>>, <<1, 3>>}, up \in BOOLEAN,
     recs \in UNION {[1..n -> ListedTags] : n \in 0..MaxTags}}
  \cup {[fn |-> "resolve_version", nums |-> None, recs |-> <<>>,
         spec |-> v, resp |-> r] :
          v \in {VExact, VLatest, VBogus}, r \in Responses}

UrlCalls ==
  [fn : {"build_asset_url"}, schematic_id : {s_abc, s_placeholder},
   version : {Tag120, TagOf(s_v, <<1, 11, 0>>, None).text},
   platform : {s_nocloud, s_metal, <<"a", "w", "s">>},
   image_format : {s_iso_fmt, s_raw, s_rawxz_fmt, s_rawxz_one, s_qcow2},
   arch : {s_amd64, <<"a", "r", "m", "6", "4">>}, secureboot : BOOLEAN]

Calls == PushCalls \cup KeyCalls \cup ResolveCalls \cup UrlCalls

BuildAssetUrl ==
  /\ pc = "call" /\ call.fn = "build_asset_url"
  /\ ret' = build_asset_url(call.schematic_id, call.version, call.platform,
                            call.image_format, call.arch, call.secureboot)
  /\ pc' = "ret"
  /\ UNCHANGED <<call, cfgVars, fsVars, retVars, ordVars, itemVars, io,
                 faults>>

ResolveVersion ==
  /\ pc = "call" /\ call.fn = "resolve_version"
  /\ ret' = resolve_version(call.spec, call.resp)
  /\ pc' = "ret"
  /\ UNCHANGED <<call, cfgVars, fsVars, retVars, ordVars, itemVars, io,
                 faults>>

\* both key functions on both tags of the call
SemverKey ==
  /\ pc = "call" /\ call.fn = "semver_key"
  /\ ret' = [ka |-> semver_key(call.a.text), kb |-> semver_key(call.b.text),
             pa |-> parse_semver_for_sort(call.a.text),
             pb |-> parse_semver_for_sort(call.b.text)]
  /\ pc' = "ret"
  /\ UNCHANGED <<call, cfgVars, fsVars, retVars, ordVars, itemVars, io,
                 faults>>

PushFileToHosts ==
  /\ pc = "call" /\ call.fn = "push_file_to_hosts"
  /\ ret' = push_file_to_hosts(call.hosts, call.outs, 1)
  /\ pc' = "ret"
  /\ UNCHANGED <<call, cfgVars, fsVars, retVars, ordVars, itemVars, io,
                 faults>>

InitFunctions ==
  /\ pc = "call" /\ call \in Calls /\ ret = NoCall
  /\ dry_run = FALSE /\ purge_before = FALSE /\ cache_enabled = FALSE
  /\ keep_versions = 0 /\ push_enabled_default = FALSE /\ nOrders = 0
  /\ cacheDirExists = FALSE /\ cache = <<>>
  /\ plan = <<>> /\ delIdx = 1 /\ removed = <<>> /\ attempts = <<>>
  /\ orderIdx = 1 /\ positions = <<>> /\ manifests = <<>>
  /\ posIdx = 1 /\ entries = <<>> /\ cur = NoCur
  /\ io = NoIo /\ faults = 0

NextFunctions ==
  \/ PushFileToHosts
  \/ SemverKey
  \/ ResolveVersion
  \/ BuildAssetUrl

SpecFunctions == InitFunctions /\ [][NextFunctions]_vars

\* ------------------------------------------------------------------ claims
\* where process_positions is while it works on one item
ItemStages ==
  { "resolve", "schematic", "locate", "fetch", "dl_open", "dl_partial",
    "dl_full", "checksum", "decompress", "dc_open", "dc_partial", "dc_full",
    "push", "push_host" }

\* where process_positions is once the entry of the item exists
AfterLocate == ItemStages \ {"resolve", "schematic", "locate"}

IsErrorEntry(e) == DOMAIN e = {"name", "status", "error"} /\ e.status = "error"

IsSuccessEntry(e) == "status" \notin DOMAIN e /\ "path" \in DOMAIN e

\* the name an item is reported under
ReportedName(it) == IF it.name = "None" THEN "<unnamed>" ELSE it.name

FailureKinds ==
  { "ValueError", "URLError", "RuntimeError", "OSError", "LZMAError" }

\* the step ends the current item with one more entry, of that item
ItemEndsWithEntry ==
  /\ pc' = "item" /\ posIdx' = posIdx + 1 /\ positions' = positions
  /\ Len(entries') = Len(entries) + 1
  /\ SubSeq(entries', 1, Len(entries)) = entries
  /\ LET e == entries'[Len(entries')]
     IN /\ e.name = ReportedName(positions[posIdx])
        /\ \/ IsErrorEntry(e) /\ e.error \in FailureKinds
           \/ IsSuccessEntry(e) /\ pc \in {"locate", "push", "push_host"}

\* C1: whatever stage of a talos item fails, the failure ends the item with
\* one error entry that carries the item's name and the failure kind, the
\* entries of the earlier items are kept, and the loop goes on with the next
\* item; no stage leaves process_positions.
Thm_C1_ItemBoundary ==
  [][(pc \in ItemStages)
       => ( \/ pc' \in ItemStages /\ posIdx' = posIdx /\ entries' = entries
            \/ ItemEndsWithEntry )]_vars

\* an item failed in its download and the next item of the order succeeded
Wit_C1_FailThenSuccess ==
  /\ pc = "item" /\ Len(entries) = 2 /\ io.downloads = 2
  /\ IsErrorEntry(entries[1]) /\ entries[1].error = "URLError"
  /\ IsSuccessEntry(entries[2]) /\ entries[2].done

\* C2: whatever the items are, process_positions returns a list of entries:
\* no item makes it raise, so no order-level error entry (here, for the
\* AttributeError of a lookup on a value that is not a mapping) replaces the
\* entries of the order.
Claim_C2_NoItemRaises ==
  ~(pc = "manifest" /\ entries = on_order_exception("AttributeError"))

\* process_positions has returned its list (it did not raise)
Returned ==
  pc = "manifest" /\ \A i \in 1..Len(entries) : "name" \in DOMAIN entries[i]

\* the product of the item is talos, whatever the case of its letters
ProductIsTalos(it) ==
  /\ it.product # None
  /\ Len(it.product) = Len(s_talos)
  /\ \A i \in 1..Len(s_talos) :
       it.product[i] \in {s_talos[i], s_TALOS[i]}

\* the names the talos items are reported under, in their order
RECURSIVE TalosNames(_)
TalosNames(items) ==
  IF items = <<>> THEN <<>>
  ELSE (IF ProductIsTalos(Head(items)) THEN <<ReportedName(Head(items))>>
        ELSE <<>>) \o TalosNames(Tail(items))

Claim_C3_ManifestPerOrder ==
  pc \in {"aborted", "retention", "retention_exec", "done"}
    => \A k \in 1..nOrders :
         \E i \in 1..Len(manifests) : manifests[i].order = k

\* the entry a dry run projects for an item
IsProjectedEntry(e) ==
  /\ IsSuccessEntry(e) /\ ~e.done /\ e.sha = "None" /\ e.pushed = <<>>
  /\ e.decompressed.path = None

RepeatIsIdempotent ==
  \A i, j \in 1..Len(entries) :
    ( /\ i < j /\ IsSuccessEntry(entries[i]) /\ IsSuccessEntry(entries[j])
      /\ entries[i].path = entries[j].path /\ entries[i].sha # "None" )
      => ~entries[j].done /\ entries[j].sha = entries[i].sha

\* C6: when the canonical path of the item exists and is not empty, the item
\* is not downloaded, its bytes stay as they are, download.done is false and
\* the sidecar is rewritten with the checksum of those bytes, so that
\* processing the item again gives the same checksum; when the path is absent
\* or of length zero the item is downloaded.
Thm_C6_FetchIdempotent ==
  [][/\ (pc = "fetch")
          => IF Content(cache, cur.entry.path) \notin {"absent", "empty"}
               THEN /\ io'.downloads = io.downloads /\ cache' = cache
                    /\ pc' = "checksum" /\ ~cur'.entry.done
               ELSE io'.downloads = io.downloads + 1 /\ pc' # "checksum"
     /\ (pc = "checksum" /\ pc' \in AfterLocate)
          => /\ cache'[cur.entry.path] = cache[cur.entry.path]
             /\ cache'[Sidecar(cur.entry.path)] = ShaOf(cache[cur.entry.path])
             /\ cur'.entry.sha = ShaOf(cache[cur.entry.path])
     /\ (pc \in AfterLocate \ {"dl_full"} /\ pc' \in AfterLocate)
          => cur'.entry.done = cur.entry.done
     /\ RepeatIsIdempotent']_vars

\* the same item twice in an order: downloaded once, then found in the cache
Wit_C6_SecondTimeCached ==
  /\ pc = "item" /\ Len(entries) = 2 /\ io.downloads = 1
  /\ IsSuccessEntry(entries[1]) /\ IsSuccessEntry(entries[2])
  /\ entries[1].done /\ ~entries[2].done
  /\ entries[1].path = entries[2].path /\ entries[1].sha = entries[2].sha

\* a path of an artifact: neither a .part file nor a sidecar
IsCanonical(n) == ~EndsWith(n, s_part) /\ ~EndsWith(n, s_sha256)

\* C7: a canonical path changes only by the final rename of a download or of
\* a decompression, and then to the complete new content; partial content is
\* at .part paths only, and a .part file left behind does not make the item
\* count as cached.
Thm_C7_AtomicPlacement ==
  [][/\ \A n \in DOMAIN cache \cup DOMAIN cache' :
          IsCanonical(n)
            => \/ Content(cache', n) = Content(cache, n)
               \/ /\ pc = "dl_full" /\ n = cur.entry.path
                  /\ cache'[n] = "new"
               \/ /\ pc = "dc_full" /\ n = StripXz(cur.entry.path)
                  /\ cache'[n] = RawOf(cache[cur.entry.path])
     /\ \A n \in DOMAIN cache' :
          cache'[n] = "partial" => EndsWith(n, s_part)
     /\ (pc = "fetch" /\ cur.entry.path \notin DOMAIN cache)
          => pc' # "checksum"]_vars

\* a decompression has failed half way: its bytes are at the .part path only
Wit_C7_FailedDecompression ==
  /\ pc = "item" /\ Len(entries) = 1
  /\ IsErrorEntry(entries[1]) /\ entries[1].error = "LZMAError"
  /\ Content(cache, PartOf(StripXz(RawXzPath))) = "partial"
  /\ StripXz(RawXzPath) \notin DOMAIN cache

\* the versioned artifacts of a directory: not a sidecar, named talos-v..-..
Artifacts(c) ==
  {n \in DOMAIN c : ~EndsWith(n, s_sha256) /\ FILE_RE_match(n).ok}

\* the family of an artifact: the artifacts with the same name once the
\* leading version token is stripped
FamilyOf(c, n) ==
  {m \in Artifacts(c) : FILE_RE_match(m).tail = FILE_RE_match(n).tail}

VersionKey(n) == parse_semver_for_sort(FILE_RE_match(n).version)

PlanIsExact(dirExists, c, keep, pl) ==
  IF keep <= 0 \/ ~dirExists THEN pl = <<>>
  ELSE
    /\ \A i, j \in 1..Len(pl) : i # j => pl[i] # pl[j]
    \* nothing but victims and, right after each, its existing sidecar
    /\ \A i \in 1..Len(pl) :
         \/ pl[i] \in Artifacts(c)
         \/ /\ i > 1 /\ pl[i - 1] \in Artifacts(c)
            /\ pl[i] = Sidecar(pl[i - 1]) /\ pl[i] \in DOMAIN c
    /\ \A i \in 1..Len(pl) :
         (pl[i] \in Artifacts(c) /\ Sidecar(pl[i]) \in DOMAIN c)
           => (i < Len(pl) /\ pl[i + 1] = Sidecar(pl[i]))
    \* of every family, all but the keep newest, and no newer one before an
    \* older one that is kept
    /\ \A n \in Artifacts(c) :
         LET F == FamilyOf(c, n)
             V == F \cap SeqRange(pl)
         IN /\ Cardinality(V) =
                 IF Cardinality(F) > keep THEN Cardinality(F) - keep ELSE 0
            /\ \A v \in V : \A k \in F \ V :
                 ~KeyLess(VersionKey(k), VersionKey(v))

ExampleC8 ==
  { CacheName(Tag120, NocloudIso), CacheName(Tag130, NocloudIso),
    CacheName(Tag110, NocloudIso), Sidecar(CacheName(Tag110, NocloudIso)) }

PipelineFamily(c, b) == {CacheName(t, b) : t \in Tags} \cap DOMAIN c

\* C9: two cache files of the same platform, architecture, format and
\* secure-boot flag that differ in the version tag only are in one family and
\* ranked against each other: retention keeps at most keep_versions of them.
Claim_C9_SameFamily ==
  [][(pc = "retention" /\ cache_enabled /\ cacheDirExists
        /\ keep_versions >= 1)
       => \A b \in Basenames :
            /\ Cardinality(PipelineFamily(cache, b) \ SeqRange(plan'))
                 <= keep_versions
            /\ \A m, n \in PipelineFamily(cache, b) :
                 FILE_RE_match(m).tail = FILE_RE_match(n).tail]_vars

\* what execute_cache_cleanup is to report for the paths it has tried
RECURSIVE ReportOf(_)
ReportOf(tried) ==
  IF tried = <<>> THEN <<>>
  ELSE LET a == Head(tried)
       IN (IF a.outcome = "absent" THEN <<>>
           ELSE <<[path |-> a.path, error |-> a.outcome = "failed"]>>)
          \o ReportOf(Tail(tried))

\* C10: execute_cache_cleanup skips an absent path without reporting it,
\* reports every path it failed to remove (file or directory) as an error and
\* not as removed, and goes on with the remaining paths.
Claim_C10_BestEffort ==
  pc \in {"purge_exec", "retention_exec", "done"}
    => /\ Len(attempts) = delIdx - 1
       /\ removed = ReportOf(attempts)

\* process_positions found a push tool missing, in this order or an earlier one
ToolMissing ==
  \/ pc = "manifest" /\ entries = on_order_exception("RuntimeError")
  \/ \E i \in 1..Len(manifests) :
       manifests[i].entries = on_order_exception("RuntimeError")

\* C11: when a push tool is found missing, no version was looked up, no build
\* was requested, nothing was downloaded or deleted, no item of any order has
\* been or is being processed, and the run goes no further.
Claim_C11_ToolCheckFirst ==
  ToolMissing
    => /\ io.gets = 0 /\ io.posts = 0 /\ io.downloads = 0
       /\ attempts = <<>>
       /\ pc \notin ItemStages \cup {"pp", "item", "retention_exec"}
       /\ \A i \in 1..Len(manifests) :
            \A j \in 1..Len(manifests[i].entries) :
              "name" \notin DOMAIN manifests[i].entries[j]

\* the push of call has returned
Pushed == pc = "ret" /\ call.fn = "push_file_to_hosts"

\* position of the command c of host i in cmds, 0 when it is not run
CmdAt(cmds, i, c) ==
  IF \E k \in 1..Len(cmds) : cmds[k] = [idx |-> i, cmd |-> c]
    THEN CHOOSE k \in 1..Len(cmds) : cmds[k] = [idx |-> i, cmd |-> c]
    ELSE 0

Keyed == pc = "ret" /\ call.fn = "semver_key"

\* numeric order of two cores (major, minor, patch)
CoreLess(x, y) ==
  \/ x[1] < y[1]
  \/ x[1] = y[1] /\ x[2] < y[2]
  \/ x[1] = y[1] /\ x[2] = y[2] /\ x[3] < y[3]

\* C13: _semver_key and _parse_semver_for_sort return the same key for every
\* tag; for tags with a valid core the key starts with the numbers of the
\* core, so that a numerically smaller core has a smaller key, and of two tags
\* with the same core the GA tag has a strictly greater key than the
\* pre-release.
Thm_C13_KeyOrder ==
  Keyed
    => /\ ret.pa = ret.ka /\ ret.pb = ret.kb
       /\ call.a.valid /\ call.b.valid
            => /\ SubSeq(ret.ka, 1, 3) = call.a.core
               /\ CoreLess(call.a.core, call.b.core) => KeyLess(ret.ka, ret.kb)
               /\ call.a.core = call.b.core /\ call.a.ga /\ ~call.b.ga
                    => KeyLess(ret.kb, ret.ka) /\ ~KeyLess(ret.ka, ret.kb)

\* v0.10.9 against v0.9.10 (numeric, not textual, order), and v1.9.0 against
\* v1.9.0-rc.1
Wit_C13_NumericAndGa ==
  /\ Keyed /\ call.a.valid /\ call.b.valid
  /\ \/ /\ call.a.core = <<0, 9, 10>> /\ call.b.core = <<0, 10, 9>>
        /\ StrLess(call.b.text, call.a.text) /\ KeyLess(ret.ka, ret.kb)
     \/ /\ call.a.core = <<1, 9, 0>> /\ call.a.core = call.b.core
        /\ call.a.ga /\ call.b.text = call.a.text \o s_dash \o s_rc1
        /\ KeyLess(ret.kb, ret.ka)

\* resolve_version has returned from a latest-in-minor lookup
ResolvedInMinor ==
  pc = "ret" /\ call.fn = "resolve_version"
    /\ call.spec.type = "latest-in-minor"

\* the listed tags of the minor line that was asked for
MinorLine ==
  {i \in 1..Len(call.recs) : SubSeq(call.recs[i].core, 1, 2) = call.nums}

\* C14: a latest-in-minor lookup fails when the minor is absent or no listed
\* tag is of that minor line; otherwise it returns, with provenance
\* latest-in-minor, a listed tag of that minor line whose patch no other tag
\* of the line exceeds and which is GA when the line lists the GA tag of that
\* patch; a tag of another minor line is never returned.
Thm_C14_LatestInMinor ==
  ResolvedInMinor
    => IF call.nums \in {None, <<>>}
         THEN ~ret.ok /\ ret.error = "ValueError" /\ ret.gets = 0
       ELSE IF ~call.resp.ok THEN ~ret.ok
       ELSE IF MinorLine = {} THEN ~ret.ok /\ ret.error = "RuntimeError"
       ELSE /\ ret.ok /\ ret.source = "latest-in-minor"
            /\ \E i \in MinorLine :
                 /\ ret.version = call.recs[i].text
                 /\ \A j \in MinorLine :
                      /\ call.recs[j].core[3] <= call.recs[i].core[3]
                      /\ call.recs[j].core = call.recs[i].core
                           /\ call.recs[j].ga => call.recs[i].ga

\* the endpoint lists v1.11.0, v1.1.10-rc.1 and v1.1.10 in this order and
\* the lookup for v1.1 returns v1.1.10
Wit_C14_PrefixAndGa ==
  /\ ResolvedInMinor /\ call.nums = <<1, 1>> /\ Len(call.recs) = 3
  /\ call.recs[1] = TagOf(s_v, <<1, 11, 0>>, None)
  /\ call.recs[2] = TagOf(s_v, <<1, 1, 10>>, s_rc1)
  /\ call.recs[3] = TagOf(s_v, <<1, 1, 10>>, None)
  /\ ret.ok /\ ret.version = call.recs[3].text

\* build_asset_url has returned or raised
Located == pc = "ret" /\ call.fn = "build_asset_url"

\* the URL of the artifact `name` of the call's schematic and version
UrlOf(name) ==
  s_base \o call.schematic_id \o s_slash \o call.version \o s_slash \o name

NoId(it) == it.schematic_id \in {None, <<>>}

\* the items up to the current one that need a build: no id, a customization
Needy == {i \in 1..Len(positions) : i <= posIdx /\ NoId(positions[i])
                                      /\ positions[i].customization}

\* C16: a build request (POST) is sent only by the schematic step of an item
\* that has no id and has a customization, and never in a dry run; there are
\* never more requests than such items so far; an item with an id goes on
\* with its own id; an item with neither fails at once with an error entry;
\* a dry run goes on with the placeholder id, which its projected entry and
\* URL then carry.
Thm_C16_BuildOnlyWhenNeeded ==
  [][ /\ io'.posts \in {io.posts, io.posts + 1}
      /\ io'.posts # io.posts
           => /\ pc = "schematic" /\ ~dry_run
              /\ posIdx \in Needy
      /\ io'.posts <= Cardinality(Needy)
      /\ (pc = "schematic")
           => LET it == positions[posIdx]
              IN /\ ~NoId(it)
                      => pc' = "locate" /\ cur'.schematic_id = it.schematic_id
                 /\ NoId(it) /\ ~it.customization
                      => /\ io' = io /\ Len(entries') = Len(entries) + 1
                         /\ IsErrorEntry(entries'[Len(entries')])
                 /\ NoId(it) /\ it.customization /\ dry_run
                      => pc' = "locate" /\ cur'.schematic_id = s_placeholder
      /\ (pc = "locate" /\ dry_run /\ NoId(positions[posIdx])
            /\ Len(entries') > Len(entries))
           => LET e == entries'[Len(entries')]
              IN IsSuccessEntry(e)
                   => /\ e.schematic_id = s_placeholder
                      /\ StartsWith(e.url, s_base \o s_placeholder \o s_slash)
    ]_vars

\* the first item had an id and a customization and sent no request, the
\* second had only a customization and sent one
Wit_C16_OneOfTwoBuilds ==
  /\ pc = "locate" /\ posIdx = 2 /\ io.posts = 1
  /\ ~NoId(positions[1]) /\ positions[1].customization
  /\ Len(entries) = 1 /\ IsSuccessEntry(entries[1])
  /\ NoId(positions[2]) /\ cur.schematic_id = s_created

\* C17: any two keys are comparable, and the key of a tag whose core is not
\* MAJOR.MINOR.PATCH is at or below the key of every tag with a valid core.
Claim_C17_MalformedLast ==
  Keyed
    => /\ KeyLess(ret.ka, ret.kb) \/ ret.ka = ret.kb \/ KeyLess(ret.kb, ret.ka)
       /\ ~call.a.valid /\ call.b.valid => ~KeyLess(ret.kb, ret.ka)

\* position of a step of the pipeline in the order of the stages: Resolving 1,
\* BuildRequesting 2, Locating 3, Fetching 4-8, Decompressing 9-12, the
\* decision to push 13, Pushing 14
StageNo(p) ==
  CASE p = "resolve" -> 1 [] p = "schematic" -> 2 [] p = "locate" -> 3
    [] p = "fetch" -> 4 [] p = "dl_open" -> 5 [] p = "dl_partial" -> 6
    [] p = "dl_full" -> 7 [] p = "checksum" -> 8 [] p = "decompress" -> 9
    [] p = "dc_open" -> 10 [] p = "dc_partial" -> 11 [] p = "dc_full" -> 12
    [] p = "push" -> 13 [] p = "push_host" -> 14

Decompressing == {"decompress", "dc_open", "dc_partial", "dc_full"}

StageOf(p) ==
  IF StageNo(p) <= 3 THEN p
  ELSE IF StageNo(p) <= 8 THEN "Fetching"
  ELSE IF p \in Decompressing THEN "Decompressing"
  ELSE "Pushing"

\* the item asks for decompression / for a push
WantsRaw(it) ==
  it.image_format \in {s_rawxz_fmt, s_rawxz_one} /\ it.decompress_raw

WantsPush(it) ==
  /\ it.push.hosts # <<>>
  /\ \/ it.push.enabled = "true"
     \/ it.push.enabled = "absent" /\ push_enabled_default

\* C18: a step of an item either goes on to a later step of the same stage or
\* to the first step of the next stage (Fetching is left only after the
\* checksum, Decompressing is skipped when it is not asked for) or ends
\* the item with one entry: an error entry after a failure, a success entry
\* only after the last stage (or after Locating in a dry run); no step goes
\* back; lookups, build requests, downloads, decompressions and remote
\* commands happen only in their own stage; Decompressing is entered only for
\* raw.xz/rawxz with decompress_raw, Pushing only when enabled with hosts.
Thm_C18_StageOrder ==
  [][ (pc \in ItemStages)
        => LET it == positions[posIdx]
           IN /\ \/ /\ pc' \in ItemStages
                    /\ posIdx' = posIdx /\ entries' = entries
                    /\ \/ StageNo(pc) <= 3 /\ StageNo(pc') = StageNo(pc) + 1
                       \/ /\ StageOf(pc') = StageOf(pc)
                          /\ StageNo(pc') > StageNo(pc)
                       \/ pc = "checksum" /\ pc' \in {"decompress", "push"}
                       \/ pc = "dc_full" /\ pc' = "push"
                       \/ pc = "push_host" /\ pc' = "push_host"
                 \/ /\ pc' = "item" /\ posIdx' = posIdx + 1
                    /\ Len(entries') = Len(entries) + 1
                    /\ SubSeq(entries', 1, Len(entries)) = entries
                    /\ LET e == entries'[Len(entries')]
                       IN \/ IsErrorEntry(e)
                          \/ /\ IsSuccessEntry(e)
                             /\ \/ pc = "push_host"
                                \/ pc = "push" /\ ~WantsPush(it)
                                \/ pc = "locate" /\ dry_run
              /\ io'.gets # io.gets => pc = "resolve"
              /\ io'.posts # io.posts => pc = "schematic"
              /\ io'.downloads # io.downloads => StageNo(pc) \in 4..7
              /\ io'.decompressions # io.decompressions => pc \in Decompressing
              /\ io'.remote_cmds # io.remote_cmds => pc = "push_host"
              /\ pc' \in Decompressing => WantsRaw(it)
              /\ (pc = "checksum" /\ pc' \in ItemStages)
                   => (pc' = "decompress") = WantsRaw(it)
              /\ pc' = "push_host" => WantsPush(it)
    ]_vars

\* an item that asked for neither decompression nor push has been downloaded
\* and checksummed, and the item before it failed while being decompressed
Wit_C18_FailedThenSkipping ==
  /\ pc = "push" /\ posIdx = 2 /\ cur.entry.done
  /\ ~WantsRaw(positions[2]) /\ ~WantsPush(positions[2])
  /\ WantsRaw(positions[1]) /\ WantsPush(positions[1])
  /\ Len(entries) = 1 /\ IsErrorEntry(entries[1])
  /\ entries[1].error = "LZMAError" /\ io.decompressions = 1
  /\ io.remote_cmds = 0

\* the steps of main after the order loop
AfterOrders == {"retention", "retention_exec", "done"}

\* C19: deletions of the clean-up happen only while a purge or the retention
\* is executed; the purge is planned once, right after the start, executed
\* only when purge_before is set, and is over before anything of an order is
\* processed; the retention is planned only after the loop over the orders
\* has ended with one manifest per order, executed only when the cache policy
\* is enabled, never returns to the orders, and is what the run ends with.
Thm_C19_CleanupOrdering ==
  [][ /\ (attempts' # attempts /\ attempts' # <<>>)
           => pc \in {"purge_exec", "retention_exec"}
      /\ pc' = "purge" => pc = "start"
      /\ pc' = "purge_exec" => pc \in {"purge", "purge_exec"} /\ purge_before
      /\ (pc \in {"purge", "purge_exec"})
           => /\ orderIdx = 1 /\ manifests = <<>> /\ positions = <<>>
              /\ entries = <<>> /\ io = NoIo
              /\ pc' \in {"purge_exec", "orders"}
      /\ pc' = "pp" => pc = "orders"
      /\ (pc' = "retention")
           => pc = "orders" /\ orderIdx > nOrders /\ Len(manifests) = nOrders
      /\ pc' = "retention_exec"
           => pc \in {"retention", "retention_exec"} /\ cache_enabled
      /\ (pc \in AfterOrders) => pc' \in AfterOrders
      /\ pc' = "done" => pc \in {"retention", "retention_exec"}
    ]_vars

\* a purge emptied the cache, two orders were processed, and the retention
\* is removing what they left behind
Wit_C19_PurgeOrdersRetention ==
  /\ pc = "retention_exec" /\ purge_before /\ nOrders = 2
  /\ Len(manifests) = 2 /\ attempts # <<>>
  /\ attempts[1].outcome = "deleted"

\* C20: every run gets to the end of the loop over the orders with every
\* order completed, one after the other in input order.
Claim_C20_Progress ==
  <>(/\ pc \in AfterOrders
     /\ Len(manifests) = nOrders
     /\ \A k \in 1..nOrders : manifests[k].order = k)

\* the artifact at path p is in the cache together with its sidecar
Kept(p) == p \in DOMAIN cache /\ Sidecar(p) \in DOMAIN cache

\* C21: at the end of a real run, every path that a success entry of a
\* manifest written by the run records (the download, and the decompressed
\* file when there is one) is still in the cache together with its sidecar.
Claim_C21_ReportedArtifactsKept ==
  (pc = "done" /\ ~dry_run)
    => \A i \in 1..Len(manifests) :
         \A j \in 1..Len(manifests[i].entries) :
           LET e == manifests[i].entries[j]
           IN (manifests[i].written /\ IsSuccessEntry(e))
                => /\ Kept(e.path)
                   /\ e.decompressed.path # None => Kept(e.decompressed.path)

\* a name of the form talos-v<version>-<tail> that is not a sidecar
IsVersioned(n) == FILE_RE_match(n).ok /\ ~EndsWith(n, s_sha256)

\* the entries of the family of a that are at least as new as a, a included
NotOlder(c, a) ==
  {m \in FamilyOf(c, a) : ~KeyLess(VersionKey(m), VersionKey(a))}

\* what a plan pl for the directory c may hold
TouchesOnlyVersioned(c, keep, pl) ==
  /\ \A i \in 1..Len(pl) :
       /\ pl[i] \in DOMAIN c
       /\ \/ IsVersioned(pl[i])
          \/ \E j \in 1..Len(pl) :
               IsVersioned(pl[j]) /\ pl[i] = Sidecar(pl[j])
  /\ \A n \in DOMAIN c :
       \* an entry with any other name
       /\ (~FILE_RE_match(n).ok) => n \notin SeqRange(pl)
       \* the sidecar of a retained artifact, and a sidecar without artifact
       /\ (EndsWith(n, s_sha256)
             /\ \A a \in SeqRange(pl) : n # Sidecar(a))
            => n \notin SeqRange(pl)
       \* one of the newest keep entries of its family
       /\ (IsVersioned(n) /\ Cardinality(NotOlder(c, n)) <= keep)
            => n \notin SeqRange(pl) /\ Sidecar(n) \notin SeqRange(pl)
  \* the same when pre-releases are counted to the family of their artifact
  /\ \A b \in Basenames : \A t \in Tags :
       (/\ CacheName(t, b) \in DOMAIN c
        /\ Cardinality({u \in Tags :
                          /\ CacheName(u, b) \in DOMAIN c
                          /\ ~KeyLess(semver_key(u), semver_key(t))}) <= keep)
         => CacheName(t, b) \notin SeqRange(pl)

\* C22: every path in the plan of plan_cache_cleanup is a cache entry named
\* talos-v<version>-<tail> that is not a sidecar, or the sidecar of such a
\* planned entry; entries with another name, sidecars of retained artifacts
\* and the newest keep_versions entries of every family are not in the plan,
\* and executing the plan leaves every entry outside it as it was.
Thm_C22_RetentionFrame ==
  [][ /\ (pc = "retention" /\ cache_enabled)
           => TouchesOnlyVersioned(cache, keep_versions, plan')
      /\ (pc = "retention_exec")
           => /\ plan' = plan
              /\ \A n \in DOMAIN cache \ SeqRange(plan) :
                   n \in DOMAIN cache' /\ cache'[n] = cache[n]
    ]_vars

\* retention with keep_versions = 1 has removed v1.1.0 and left the directory
\* tmp, v1.2.0 and the sidecar of v1.2.0 in place
Wit_C22_OthersLeft ==
  /\ pc = "done" /\ keep_versions = 1
  /\ plan = <<CacheName(Tag110, NocloudIso)>>
  /\ Len(attempts) = 1 /\ attempts[1].outcome = "deleted"
  /\ DOMAIN cache = {s_tmp, CacheName(Tag120, NocloudIso),
                     Sidecar(CacheName(Tag120, NocloudIso))}

====
